---- MODULE Spec2Model ----
(***************************************************************************)
(* Model of the custom metrics exporter (exporter.py): the collector loop  *)
(* of main(), the seven collection steps of collect_all_metrics(), the     *)
(* connection handling of query_db()/get_db_connection(), the gauges of    *)
(* the in-memory registry and the scrape endpoint that reads them.         *)
(***************************************************************************)
EXTENDS Integers, Sequences, FiniteSets, TLC

\* Rows the datastore hands out over one run (all of them to one step).
MaxRows == 2

\* LIMIT of the automation-rate query.
RowLimit == 100

\* Rows the datastore hands out over one run of the fair specification.
FairRows == 1

VARIABLES
    pc,          \* position of the collector thread
    step,        \* index of the collection step being run (1..7)
    q,           \* index of the query of the step being run
    conn,        \* number of datastore connections currently open
    window,      \* history: the table rows the latest query matched
    results,     \* the rows query_db returned to the step
    idx,         \* position of the row loop in results
    registry,    \* data gauges: gauge name -> (label tuple -> value)
    dbStatus,    \* gauge db_connection_status
    budget,      \* rows the datastore may still hand out
    dataStep,    \* the step whose tables hold rows in this run
    burst,       \* whether the tables may hold more rows than RowLimit
    scraped,     \* history: what the last scrape of this cycle read
    prev,        \* history: registry when the cycle began
    written,     \* history: <<gauge, labels, value>> set from rows this cycle
    executed,    \* history: the steps begun in this cycle, in order
    connOk,      \* history: some connection attempt of this cycle succeeded
    escaped,     \* history: the cycle ended by an error reaching main()
    rowErrStep,  \* history: the step of this cycle in which a row raised (or 0)
    stepStart,   \* history: registry when the step began
    stepWritten, \* history: <<gauge, labels, value>> set from rows this step
    stepErrs,    \* history: the kinds of error met in the step
    stepRows,    \* history: rows returned to the step
    lastConn,    \* history: outcome of the latest connection attempt
    closes       \* history: close() calls since the latest connection attempt

ctl == <<pc, step, q>>
env == <<budget, dataStep, burst>>
cycleHist == <<scraped, prev, written, executed, connOk, escaped, rowErrStep>>
stepHist == <<stepStart, stepWritten, stepErrs, stepRows>>

vars == <<pc, step, q, conn, window, results, idx, registry, dbStatus, budget,
          dataStep, burst, scraped, prev, written, executed,
          connOk, escaped, rowErrStep, stepStart, stepWritten, stepErrs,
          stepRows, lastConn, closes>>

----------------------------------------------------------------------------
(* Python values that reach the steps *)

Null == [t |-> "null"]
Text(s) == [t |-> "text", s |-> s]
Num(n) == [t |-> "num", n |-> n]

Min(a, b) == IF a < b THEN a ELSE b

Range(s) == {s[i] : i \in DOMAIN s}

\* dict.get(key, default): the default is used only when the key is absent.
Get(r, k, d) == IF k \in DOMAIN r THEN r[k] ELSE d

\* str(x), applied by Gauge.labels() to every label value.
PyStr(x) ==
    CASE x.t = "null" -> "None"
      [] x.t = "text" -> x.s
      [] x.t = "num" -> ToString(x.n)

\* Text that float()/int() parse.
NumericText == {"0", "1", "2"}

TextNumber(s) == CASE s = "0" -> 0 [] s = "1" -> 1 [] s = "2" -> 2

\* float(x): TypeError on None, ValueError on text that is no number.
PyFloat(x) ==
    CASE x.t = "num" -> [ok |-> TRUE, v |-> x.n]
      [] x.t = "text" -> IF x.s \in NumericText
                           THEN [ok |-> TRUE, v |-> TextNumber(x.s)]
                           ELSE [ok |-> FALSE, v |-> 0]
      [] x.t = "null" -> [ok |-> FALSE, v |-> 0]

\* int(x): the same failures as float(x).
PyInt(x) ==
    CASE x.t = "num" -> [ok |-> TRUE, v |-> x.n]
      [] x.t = "text" -> IF x.s \in NumericText
                           THEN [ok |-> TRUE, v |-> TextNumber(x.s)]
                           ELSE [ok |-> FALSE, v |-> 0]
      [] x.t = "null" -> [ok |-> FALSE, v |-> 0]

----------------------------------------------------------------------------
(* The steps, their queries and their gauges *)

StepOrder == <<"api_rate_limits", "tickets_processed", "automation_rate",
               "similarity_scores", "csat_scores", "resolution_time",
               "api_costs">>

Steps == 1..Len(StepOrder)

\* The gauge each query of each step feeds, in the order the step runs them.
StepGauges ==
    << <<"api_rate_limit_remaining">>,
       <<"tickets_processed_hourly", "tickets_processed_daily">>,
       <<"automation_rate">>,
       <<"similarity_score_avg">>,
       <<"csat_score">>,
       <<"resolution_time_avg_seconds">>,
       <<"api_cost_per_ticket_usd">> >>

Gauges == UNION {Range(StepGauges[s]) : s \in Steps}

\* The label fields a step reads from a row, each with the default of its get().
LabelFields(g) ==
    CASE g = "api_rate_limit_remaining" ->
            << <<"provider", "unknown">>, <<"limit_type", "requests">> >>
      [] g = "tickets_processed_hourly" -> << <<"category", "uncategorized">> >>
      [] g = "tickets_processed_daily" -> << <<"category", "uncategorized">> >>
      [] g = "automation_rate" ->
            << <<"category", "unknown">>, <<"subcategory", "all">> >>
      [] g = "similarity_score_avg" -> << <<"category", "unknown">> >>
      [] g = "csat_score" ->
            << <<"category", "unknown">>, <<"automation_level", "manual">> >>
      [] g = "resolution_time_avg_seconds" ->
            << <<"category", "unknown">>, <<"automation_level", "manual">> >>
      [] g = "api_cost_per_ticket_usd" ->
            << <<"category", "unknown">>, <<"automation_level", "manual">> >>

\* The column a step reads the value from.
ValueColumn(g) ==
    CASE g = "api_rate_limit_remaining" -> "metric_value"
      [] g = "tickets_processed_hourly" -> "count"
      [] g = "tickets_processed_daily" -> "count"
      [] g = "automation_rate" -> "metric_value"
      [] g = "similarity_score_avg" -> "avg_score"
      [] g = "csat_score" -> "avg_csat"
      [] g = "resolution_time_avg_seconds" -> "avg_resolution_time"
      [] g = "api_cost_per_ticket_usd" -> "avg_cost"

\* The tickets step casts with int(), every other step with float().
CastValue(g, x) ==
    IF g \in {"tickets_processed_hourly", "tickets_processed_daily"}
      THEN PyInt(x)
      ELSE PyFloat(x)

\* Queries with ORDER BY timestamp DESC (the others GROUP BY their labels).
Ordered(g) == g \in {"api_rate_limit_remaining", "automation_rate"}

LabelNames(g) == {LabelFields(g)[i][1] : i \in DOMAIN LabelFields(g)}

\* The label tuple a step passes to labels() for a row.
RowLabels(g, r) ==
    [i \in DOMAIN LabelFields(g) |->
        PyStr(Get(r, LabelFields(g)[i][1], Text(LabelFields(g)[i][2])))]

\* The value a step computes for a row: the cast of get(column, 0).
RowValue(g, r) == CastValue(g, Get(r, ValueColumn(g), Num(0)))

\* Gauge.labels(...).inc(v) in place of set(v): adds v to the value held.
SetGaugeInc(reg, g, l, v) ==
    [reg EXCEPT ![g] = [x \in (DOMAIN @) \cup {l} |->
                           IF x = l THEN (IF l \in DOMAIN @ THEN @[l] + v ELSE v)
                                    ELSE @[x]]]

\* Gauge.labels(...).set(v): creates the label set or replaces its value.
SetGauge(reg, g, l, v) ==
    [reg EXCEPT ![g] = [x \in (DOMAIN @) \cup {l} |-> IF x = l THEN v ELSE @[x]]]

----------------------------------------------------------------------------
(* The datastore: what a query can match, and what it returns *)

\* A text value for each label column of system_metrics.
SampleText(f) ==
    CASE f = "provider" -> "claude"
      [] f = "limit_type" -> "tokens"
      [] f = "category" -> "plumbing"
      [] f = "subcategory" -> "leak"
      [] f = "automation_level" -> "auto"

\* A label column holds text or NULL.
LabelRaw(f) == {Text(SampleText(f)), Null}

\* COUNT(*) is a number; metric_value and AVG(metric_value) may be NULL.
ValueRaw(g) ==
    IF ValueColumn(g) = "count" THEN {Num(1), Num(2)} ELSE {Num(1), Num(2), Null}

\* The rows a query can match: every selected column is present in a row.
Events(g) ==
    LET cols == LabelNames(g) \cup {ValueColumn(g)}
        raw == UNION {LabelRaw(f) : f \in LabelNames(g)} \cup ValueRaw(g)
    IN {r \in [cols -> raw] :
          /\ r[ValueColumn(g)] \in ValueRaw(g)
          /\ \A f \in LabelNames(g) : r[f] \in LabelRaw(f)}

\* A list of rows is kept as runs: [row |-> r, n |-> k] stands for k
\* consecutive rows equal to r in every column the steps read.
Run(r, k) == [row |-> r, n |-> k]

\* len(rows).
RECURSIVE RowCount(_)
RowCount(rs) == IF rs = <<>> THEN 0 ELSE rs[1].n + RowCount(Tail(rs))

\* rows[i - 1] of Python: the i-th row of the list.
RECURSIVE RowAt(_, _)
RowAt(rs, i) == IF i <= rs[1].n THEN rs[1].row ELSE RowAt(Tail(rs), i - rs[1].n)

\* The columns a GROUP BY query groups on.
GroupKey(g, r) == [f \in LabelNames(g) |-> r[f]]

\* The matching rows of a query over at most n rows. For the ORDER BY queries
\* the list runs from the oldest row to the newest (the place of a row is its
\* timestamp); for the GROUP BY queries it holds one row per group.
Windows(g, n) ==
    UNION {{[i \in 1..k |-> Run(e[i], 1)] :
              e \in {f \in [1..k -> Events(g)] :
                       Ordered(g) \/ \A i, j \in 1..k :
                                        i # j => GroupKey(g, f[i]) # GroupKey(g, f[j])}} :
            k \in 0..n}

\* Windows of more than RowLimit rows, for the ORDER BY queries: the newest
\* row of a window was recorded RowLimit more times.
BurstWindows(g, n) ==
    IF Ordered(g)
      THEN {[w EXCEPT ![Len(w)].n = 1 + RowLimit] : w \in Windows(g, n) \ {<<>>}}
      ELSE {}

\* ORDER BY timestamp ASC in place of DESC.
SortAsc(w) == w

\* ORDER BY timestamp DESC, of rows listed from the oldest to the newest.
SortDesc(w) == [i \in DOMAIN w |-> w[Len(w) + 1 - i]]

\* LIMIT n.
RECURSIVE Limit(_, _)
Limit(rs, n) ==
    IF rs = <<>> \/ n = 0 THEN <<>>
    ELSE IF rs[1].n >= n THEN <<Run(rs[1].row, n)>>
    ELSE <<rs[1]>> \o Limit(Tail(rs), n - rs[1].n)

\* cur.fetchall() of the query that feeds gauge g, over the matching rows w.
QueryResult(g, w) ==
    LET sorted == IF Ordered(g) THEN SortDesc(w) ELSE w
    IN IF g = "automation_rate" THEN Limit(sorted, RowLimit) ELSE sorted

----------------------------------------------------------------------------
(* The collector thread *)

CurGauge == StepGauges[step][q]

EmptyRegistry == [g \in Gauges |-> <<>>]

NoScrape == [status |-> -1, samples |-> EmptyRegistry]

InitCommon ==
    /\ pc = "main"
    /\ step = 1
    /\ q = 1
    /\ conn = 0
    /\ window = <<>>
    /\ results = <<>>
    /\ idx = 1
    /\ registry = EmptyRegistry
    /\ dbStatus = 0
    /\ scraped = NoScrape
    /\ prev = EmptyRegistry
    /\ written = {}
    /\ executed = <<>>
    /\ connOk = FALSE
    /\ escaped = FALSE
    /\ rowErrStep = 0
    /\ stepStart = EmptyRegistry
    /\ stepWritten = {}
    /\ stepErrs = {}
    /\ stepRows = 0
    /\ lastConn = "none"
    /\ closes = 0

Init ==
    /\ InitCommon
    /\ budget = MaxRows
    /\ dataStep \in Steps
    /\ burst = FALSE

\* main(): exporter info, start_http_server(port), the interval; then the loop.
Startup ==
    /\ pc = "main"
    /\ pc' = "loop_top"
    /\ UNCHANGED <<step, q, conn, window, results, idx, registry, dbStatus, env,
                   cycleHist, stepHist, lastConn, closes>>

\* main(): the loop calls collect_all_metrics().
CycleStart ==
    /\ pc = "loop_top"
    /\ pc' = "step_begin"
    /\ step' = 1
    /\ scraped' = NoScrape
    /\ prev' = registry
    /\ written' = {}
    /\ executed' = <<>>
    /\ connOk' = FALSE
    /\ escaped' = FALSE
    /\ rowErrStep' = 0
    /\ UNCHANGED <<q, conn, window, results, idx, registry, dbStatus, env,
                   stepHist, lastConn, closes>>

\* A step that clears its gauges before it queries.
StepBeginClear ==
    /\ pc = "step_begin"
    /\ pc' = "connect"
    /\ q' = 1
    /\ executed' = Append(executed, StepOrder[step])
    /\ registry' = [g \in Gauges |->
                      IF g \in Range(StepGauges[step]) THEN <<>> ELSE registry[g]]
    /\ stepStart' = registry
    /\ stepWritten' = {}
    /\ stepErrs' = {}
    /\ stepRows' = 0
    /\ UNCHANGED <<step, conn, window, results, idx, dbStatus, env,
                   scraped, prev, written, connOk, escaped, rowErrStep,
                   lastConn, closes>>

\* collect_*(): the step starts its timer and enters its try block.
StepBegin ==
    /\ pc = "step_begin"
    /\ pc' = "connect"
    /\ q' = 1
    /\ executed' = Append(executed, StepOrder[step])
    /\ stepStart' = registry
    /\ stepWritten' = {}
    /\ stepErrs' = {}
    /\ stepRows' = 0
    /\ UNCHANGED <<step, conn, window, results, idx, registry, dbStatus, env,
                   scraped, prev, written, connOk, escaped, rowErrStep,
                   lastConn, closes>>

\* A failed connection that also clears the gauge the query feeds.
ConnectFailClear ==
    /\ pc = "connect"
    /\ pc' = "rows"
    /\ dbStatus' = 0
    /\ registry' = [registry EXCEPT ![CurGauge] = <<>>]
    /\ window' = <<>>
    /\ results' = <<>>
    /\ idx' = 1
    /\ stepErrs' = stepErrs \cup {"connection"}
    /\ lastConn' = "fail"
    /\ closes' = 0
    /\ UNCHANGED <<step, q, conn, env, scraped, prev, written,
                   executed, connOk, escaped, rowErrStep, stepStart, stepWritten,
                   stepRows>>

\* A failed connection that leaves db_connection_status as it was.
ConnectFailKeepsStatus ==
    /\ pc = "connect"
    /\ pc' = "rows"
    /\ window' = <<>>
    /\ results' = <<>>
    /\ idx' = 1
    /\ stepErrs' = stepErrs \cup {"connection"}
    /\ lastConn' = "fail"
    /\ closes' = 0
    /\ UNCHANGED <<step, q, conn, registry, dbStatus, env, scraped, prev, written,
                   executed, connOk, escaped, rowErrStep, stepStart, stepWritten,
                   stepRows>>

\* get_db_connection() fails: status 0, and query_db returns [] at once.
ConnectFail ==
    /\ pc = "connect"
    /\ pc' = "rows"
    /\ dbStatus' = 0
    /\ window' = <<>>
    /\ results' = <<>>
    /\ idx' = 1
    /\ stepErrs' = stepErrs \cup {"connection"}
    /\ lastConn' = "fail"
    /\ closes' = 0
    /\ UNCHANGED <<step, q, conn, registry, env, scraped, prev, written,
                   executed, connOk, escaped, rowErrStep, stepStart, stepWritten,
                   stepRows>>

\* get_db_connection() succeeds: status 1, a fresh connection is open.
ConnectOk ==
    /\ pc = "connect"
    /\ pc' = "execute"
    /\ dbStatus' = 1
    /\ conn' = conn + 1
    /\ connOk' = TRUE
    /\ lastConn' = "ok"
    /\ closes' = 0
    /\ UNCHANGED <<step, q, window, results, idx, registry, env, scraped, prev,
                   written, executed, escaped, rowErrStep, stepHist>>

\* query_db returning [] from its except clause without running its finally.
QueryErrorSkipsClose == "rows"

\* Where query_db goes when execute()/fetchall() raises: to its finally.
QueryErrorPc == "close"

\* cur.execute()/fetchall() raises: query_db will return [].
ExecuteError ==
    /\ pc = "execute"
    /\ pc' = QueryErrorPc
    /\ window' = <<>>
    /\ results' = <<>>
    /\ idx' = 1
    /\ stepErrs' = stepErrs \cup {"query"}
    /\ UNCHANGED <<step, q, conn, registry, dbStatus, env, cycleHist, stepStart,
                   stepWritten, stepRows, lastConn, closes>>

\* The rows the query for gauge g can match now.
Matching(g) ==
    IF step # dataStep
      THEN {<<>>}
      ELSE Windows(g, budget) \cup (IF burst THEN BurstWindows(g, budget) ELSE {})

\* cur.execute()/fetchall() returns the rows the query matches.
ExecuteOk ==
    /\ pc = "execute"
    /\ pc' = "close"
    /\ \E w \in Matching(CurGauge) :
          /\ window' = w
          /\ results' = QueryResult(CurGauge, w)
          /\ budget' = budget - Min(budget, RowCount(w))
          /\ stepRows' = stepRows + RowCount(results')
    /\ idx' = 1
    /\ UNCHANGED <<step, q, conn, registry, dbStatus, dataStep, burst, cycleHist,
                   stepStart, stepWritten, stepErrs, lastConn, closes>>

\* query_db's finally: conn.close(), then the rows (or []) go to the step.
Close ==
    /\ pc = "close"
    /\ pc' = "rows"
    /\ conn' = conn - 1
    /\ closes' = closes + 1
    /\ UNCHANGED <<step, q, window, results, idx, registry, dbStatus, env,
                   cycleHist, stepHist, lastConn>>

\* A step without an except clause: the error of a row leaves the cycle.
RowErrorUncaught == "main_except"

\* Where a step goes when mapping a row raises: its except clause logs the
\* error and the step falls through to its finally.
RowErrorPc == "finally"

\* One iteration of "for row in results": labels, value, set().
ProcessRow ==
    /\ pc = "rows"
    /\ idx <= RowCount(results)
    /\ LET r == RowAt(results, idx)
           l == RowLabels(CurGauge, r)
           v == RowValue(CurGauge, r)
       IN IF v.ok
            THEN /\ registry' = SetGauge(registry, CurGauge, l, v.v)
                 /\ written' = written \cup {<<CurGauge, l, v.v>>}
                 /\ stepWritten' = stepWritten \cup {<<CurGauge, l, v.v>>}
                 /\ idx' = idx + 1
                 /\ UNCHANGED <<pc, stepErrs, rowErrStep>>
            ELSE /\ pc' = RowErrorPc
                 /\ stepErrs' = stepErrs \cup {"row"}
                 /\ rowErrStep' = step
                 /\ UNCHANGED <<registry, written, stepWritten, idx>>
    /\ UNCHANGED <<step, q, conn, window, results, dbStatus, env, scraped, prev,
                   executed, connOk, escaped, stepStart, stepRows,
                   lastConn, closes>>

\* The row loop is over: the step runs its next query, or leaves its try block.
LoopEnd ==
    /\ pc = "rows"
    /\ idx > RowCount(results)
    /\ IF q < Len(StepGauges[step])
         THEN pc' = "connect" /\ q' = q + 1
         ELSE pc' = "finally" /\ q' = q
    /\ UNCHANGED <<step, conn, window, results, idx, registry, dbStatus, env,
                   cycleHist, stepHist, lastConn, closes>>

\* The step's finally records its duration and the step returns;
\* collect_all_metrics calls the next step, or logs the end of the cycle.
StepFinally ==
    /\ pc = "finally"
    /\ IF step < Len(StepOrder)
         THEN pc' = "step_begin" /\ step' = step + 1
         ELSE pc' = "cycle_done" /\ step' = step
    /\ window' = <<>>
    /\ results' = <<>>
    /\ idx' = 1
    /\ stepStart' = registry
    /\ stepWritten' = {}
    /\ stepRows' = 0
    /\ UNCHANGED <<q, conn, registry, dbStatus, env, cycleHist, stepErrs,
                   lastConn, closes>>

\* An exception raised outside a step's try body (in its finally) leaves
\* collect_all_metrics and reaches the handler of main().
StepEscape ==
    /\ pc = "finally"
    /\ pc' = "main_except"
    /\ escaped' = TRUE
    /\ window' = <<>>
    /\ results' = <<>>
    /\ idx' = 1
    /\ stepStart' = registry
    /\ stepWritten' = {}
    /\ stepRows' = 0
    /\ UNCHANGED <<step, q, conn, registry, dbStatus, env, scraped, prev,
                   written, executed, connOk, rowErrStep, stepErrs, lastConn,
                   closes>>

\* collect_all_metrics returned: main() goes on to time.sleep().
CycleDone ==
    /\ pc = "cycle_done"
    /\ pc' = "sleep"
    /\ UNCHANGED <<step, q, conn, window, results, idx, registry, dbStatus, env,
                   cycleHist, stepHist, lastConn, closes>>

\* An except clause of main() that continues the loop without sleeping.
MainExceptSkipsSleep == "loop_top"

\* Where main() goes after its except clause logged the error.
MainExceptPc == "sleep"

\* main() catches the error of the cycle, logs it, goes on to time.sleep().
MainExcept ==
    /\ pc = "main_except"
    /\ pc' = MainExceptPc
    /\ UNCHANGED <<step, q, conn, window, results, idx, registry, dbStatus, env,
                   cycleHist, stepHist, lastConn, closes>>

\* time.sleep(collection_interval) returns: back to the top of the loop.
Sleep ==
    /\ pc = "sleep"
    /\ pc' = "loop_top"
    /\ UNCHANGED <<step, q, conn, window, results, idx, registry, dbStatus, env,
                   cycleHist, stepHist, lastConn, closes>>

Collector ==
    \/ Startup
    \/ CycleStart
    \/ StepBegin
    \/ ConnectFail
    \/ ConnectOk
    \/ ExecuteError
    \/ ExecuteOk
    \/ Close
    \/ ProcessRow
    \/ LoopEnd
    \/ StepFinally
    \/ StepEscape
    \/ CycleDone
    \/ MainExcept
    \/ Sleep

----------------------------------------------------------------------------
(* The scrape endpoint *)

\* What a GET of /metrics reads: every gauge of the registry.
ScrapeResponse == [status |-> dbStatus, samples |-> registry]

\* The server thread started by start_http_server() answers a GET.
Scrape ==
    /\ pc # "main"
    /\ scraped' = ScrapeResponse
    /\ UNCHANGED <<ctl, conn, window, results, idx, registry, dbStatus, env,
                   prev, written, executed, connOk, escaped, rowErrStep,
                   stepHist, lastConn, closes>>

Next == Collector \/ Scrape

Spec == Init /\ [][Next]_vars

\* Runs whose tables may hold more than RowLimit rows for the ORDER BY queries.
InitBurst ==
    /\ InitCommon
    /\ budget = MaxRows
    /\ dataStep \in {1, 3}
    /\ burst = TRUE

SpecBurst == InitBurst /\ [][Next]_vars

\* The collector thread keeps running: every call it makes returns.
InitFair ==
    /\ InitCommon
    /\ budget = FairRows
    /\ dataStep = 2
    /\ burst = FALSE

FairSpec == InitFair /\ [][Next]_vars /\ WF_vars(Collector)

----------------------------------------------------------------------------
(* Properties *)

IsPrefix(a, b) == Len(a) <= Len(b) /\ SubSeq(b, 1, Len(a)) = a

InStep == pc \in {"connect", "execute", "close", "rows", "finally"}

AfterCycle == pc \in {"cycle_done", "main_except", "sleep"}

\* The label tuple the documentation gives a row: the fallback of a field
\* whose value is NULL or whose key is absent.
FallbackLabels(g, r) ==
    [i \in DOMAIN LabelFields(g) |->
        LET f == LabelFields(g)[i][1]
        IN IF f \notin DOMAIN r \/ r[f] = Null
             THEN LabelFields(g)[i][2]
             ELSE PyStr(r[f])]

\* What a processed row r leaves in gauge g.
RowSample(g, r) == <<g, RowLabels(g, r), RowValue(g, r).v>>

\* Every value of samples is the one of p or was set from a row listed in w.
OldOrRow(samples, p, w) ==
    \A g \in Gauges : \A l \in DOMAIN samples[g] :
        \/ l \in DOMAIN p[g] /\ samples[g][l] = p[g][l]
        \/ <<g, l, samples[g][l]>> \in w

\* C1: in every cycle the seven steps are begun once each, in the fixed
\* order, whatever the outcome of each step: the steps begun so far are a
\* prefix of the order, the step being run is the latest begun, a cycle that
\* returns has begun all seven, and a cycle ends early only by an error
\* raised outside a step's try body, never by a connection failure, a query
\* error or a malformed row.
C1_StepsRunOnceInOrder ==
    /\ IsPrefix(executed, StepOrder)
    /\ (InStep => Len(executed) = step)
    /\ (pc = "step_begin" => Len(executed) = step - 1)
    /\ (pc = "cycle_done" => executed = StepOrder)
    /\ (pc = "main_except" => escaped)

\* A cycle returned after all seven steps although a row raised in an
\* earlier step and the connection of the last step failed.
C1_Witness ==
    /\ pc = "cycle_done"
    /\ executed = StepOrder
    /\ rowErrStep \in 1..(Len(StepOrder) - 1)
    /\ stepErrs = {"connection"}

\* C2: a row just written whose label field is NULL or absent left its value
\* under the documented fallback label of that field.
C2_FallbackLabelWritten ==
    (pc = "rows" /\ idx > 1) =>
        LET r == RowAt(results, idx - 1)
            l == FallbackLabels(CurGauge, r)
        IN /\ l \in DOMAIN registry[CurGauge]
           /\ registry[CurGauge][l] = RowValue(CurGauge, r).v

\* C3: a row whose value is NULL or no number raises no error, is written as
\* 0, and the rows after it are processed: no step meets a row error, a step
\* whose queries ran leaves its loop only past the last row, and a row just
\* written whose value does not cast holds 0.
C3_NullValueWrittenAsZero ==
    /\ "row" \notin stepErrs
    /\ (pc = "finally" => idx = RowCount(results) + 1)
    /\ (pc = "rows" /\ idx > 1 /\ ~RowValue(CurGauge, RowAt(results, idx - 1)).ok
          => registry[CurGauge][RowLabels(CurGauge, RowAt(results, idx - 1))] = 0)

C5_EmptyResultKeepsGauges ==
    [][ /\ \A g \in Gauges : DOMAIN registry[g] \subseteq DOMAIN registry'[g]
        /\ (registry' # registry =>
               /\ pc = "rows"
               /\ idx <= RowCount(results)
               /\ registry' = SetGauge(registry, CurGauge,
                                       RowLabels(CurGauge, RowAt(results, idx)),
                                       RowValue(CurGauge, RowAt(results, idx)).v))
        /\ (pc' = "finally" /\ stepRows' = 0 => registry' = stepStart')
      ]_vars

\* A step whose query succeeded with no row returns while its gauge still
\* holds label sets of an earlier cycle.
C5_Witness ==
    /\ pc = "finally"
    /\ stepErrs = {}
    /\ stepRows = 0
    /\ lastConn = "ok"
    /\ registry[CurGauge] # <<>>
    /\ registry = prev

\* C6: db_connection_status is 1 whenever the latest connection attempt
\* succeeded and 0 whenever it failed; after a cycle in which every attempt
\* failed, a scrape returns status 0 and, for every other gauge, the label
\* sets and values held before the cycle.
C6_DownIndicator ==
    /\ (lastConn = "ok" => dbStatus = 1)
    /\ (lastConn = "fail" => dbStatus = 0)
    /\ (AfterCycle /\ ~connOk =>
           ScrapeResponse = [status |-> 0, samples |-> prev])

\* A scrape taken after a cycle in which every connection attempt failed,
\* following a cycle that had connected and set gauges.
C6_Witness ==
    /\ pc = "sleep"
    /\ ~connOk
    /\ ~escaped
    /\ prev # EmptyRegistry
    /\ scraped = [status |-> 0, samples |-> prev]

\* C7: at most one connection is open, and only while query_db runs its
\* query; an open connection has not been closed yet, and once query_db has
\* returned the connection it opened has been closed exactly once, so no
\* connection is open while rows are processed, between steps or in the sleep.
C7_ConnectionClosedOnce ==
    /\ conn \in {0, 1}
    /\ (conn = 1 <=> pc \in {"execute", "close"})
    /\ (pc \in {"execute", "close"} => lastConn = "ok" /\ closes = 0)
    /\ (pc \notin {"execute", "close"} /\ lastConn = "ok" => closes = 1)
    /\ (lastConn # "ok" => closes = 0)

\* query_db returned [] after its query raised, its connection closed once.
C7_Witness ==
    /\ pc = "rows"
    /\ "query" \in stepErrs
    /\ lastConn = "ok"
    /\ results = <<>>
    /\ closes = 1
    /\ conn = 0

\* C8: the loop never exits. A cycle that completes, by returning or by an
\* error caught in main(), goes to the sleep and nowhere else; the sleep is
\* entered only from a completed cycle; the sleep is followed by the top of
\* the loop and that by the first step of a new cycle; the collector can
\* always take a step; and a new cycle starts again and again.
C8_LoopNeverExits ==
    /\ [][ /\ (pc \in {"cycle_done", "main_except"} /\ pc' # pc => pc' = "sleep")
           /\ (pc' = "sleep" /\ pc' # pc => pc \in {"cycle_done", "main_except"})
           /\ (pc = "sleep" /\ pc' # pc => pc' = "loop_top")
           /\ (pc' = "loop_top" /\ pc' # pc => pc \in {"main", "sleep"})
           /\ (pc = "loop_top" /\ pc' # pc => pc' = "step_begin" /\ step' = 1)
           /\ (pc' = "step_begin" /\ step' = 1 /\ pc' # pc => pc = "loop_top")
         ]_vars
    /\ [](ENABLED Collector)
    /\ []<>(pc = "loop_top")
    /\ []<>(pc = "step_begin" /\ step = 1)

\* The loop is back at its top after a cycle ended by an error caught in
\* main().
C8_Witness ==
    /\ pc = "loop_top"
    /\ escaped
    /\ executed # <<>>

C10_OldestOfWindowWins ==
    (pc = "finally" /\ Ordered(CurGauge) /\ stepErrs = {}) =>
        \A k \in DOMAIN window :
            LET l == RowLabels(CurGauge, window[k].row)
                first == CHOOSE i \in DOMAIN window :
                            /\ RowLabels(CurGauge, window[i].row) = l
                            /\ \A j \in 1..(i - 1) :
                                  RowLabels(CurGauge, window[j].row) # l
            IN /\ l \in DOMAIN registry[CurGauge]
               /\ RowValue(CurGauge, window[first].row).ok
               /\ registry[CurGauge][l] = RowValue(CurGauge, window[first].row).v

\* C10 (amended): the query returns the rows of the window from the newest
\* to the oldest, the automation-rate query at most RowLimit of them. When
\* the step returns, every label set of a processed row holds the value of
\* the last processed row with that label set: the oldest one among the rows
\* returned and processed, which is the oldest of the window only if the
\* window fits the limit and no row before it raised.
C10_OldestProcessedWins ==
    (pc = "finally" /\ Ordered(CurGauge)) =>
        /\ RowCount(results) =
              IF CurGauge = "automation_rate"
                THEN Min(RowCount(window), RowLimit)
                ELSE RowCount(window)
        /\ \A j \in 1..RowCount(results) :
              RowAt(results, j) = RowAt(window, RowCount(window) + 1 - j)
        /\ \A i \in 1..(idx - 1) :
              LET l == RowLabels(CurGauge, RowAt(results, i))
                  same == {j \in 1..(idx - 1) :
                              RowLabels(CurGauge, RowAt(results, j)) = l}
                  last == CHOOSE j \in same : \A k \in same : k <= j
              IN /\ l \in DOMAIN registry[CurGauge]
                 /\ registry[CurGauge][l] =
                        RowValue(CurGauge, RowAt(results, last)).v

\* The automation-rate step returns after a window of more than RowLimit
\* rows: the gauge holds the value of the oldest row returned, which is not
\* the value of the oldest row of the window with the same label set.
C10_Witness ==
    /\ pc = "finally"
    /\ CurGauge = "automation_rate"
    /\ stepErrs = {}
    /\ RowCount(window) > RowLimit
    /\ idx = RowLimit + 1
    /\ LET l == RowLabels(CurGauge, window[1].row)
       IN /\ l \in DOMAIN registry[CurGauge]
          /\ RowValue(CurGauge, window[1].row).ok
          /\ registry[CurGauge][l] # RowValue(CurGauge, window[1].row).v

====
